---- MODULE Spec2Model ----
(***************************************************************************)
(* Shopify War Room: the fetch -> analyze -> persist cycle.                *)
(*                                                                         *)
(* Two processes share one database: the background worker (worker.py,     *)
(* main / run_cycle) and the web application (app.py, add_competitor and   *)
(* run_now).  Both run the same pass over one competitor:                  *)
(*   scrape_shopify -> save_price_history -> generate_market_thesis.       *)
(* A step of the model is the code between two blocking points (a network  *)
(* call returning, a database commit).                                     *)
(***************************************************************************)
EXTENDS Integers, Sequences, FiniteSets, Bags, TLC

\* ---------------------------------------------------------------- bounds
NumTargets == 2      \* storefronts the operator may add
MaxPasses  == 2      \* passes over a competitor that cycles and requests start

\* ------------------------------------------------------ program constants
MAX_PRODUCTS  == 10
MAX_RETRIES   == 2
DEFAULT_SCORE == 50

Targets == 1..NumTargets
Procs   == {"worker", "web"}

VARIABLES
    api_key,          \* os.getenv("GROQ_API_KEY") is set
    competitor,       \* table competitors: ids of the rows (all is_active)
    price_history,    \* table price_history: the bag of its rows (ids left out)
    market_analysis,  \* table market_analysis: the bag of its rows (ids left out)
    clock,            \* datetime.utcnow() of the next commit, a logical clock
    pc,               \* pc[p]: where process p is in its pass
    comp,             \* comp[p]: the competitor of the pass (0: none)
    products,         \* products[p]: the list scrape_shopify returned
    feed,             \* feed[p]: the catalog response p's scrape_shopify got
    attempts,         \* attempts[p]: requests sent by the current create() call
    raw,              \* raw[p]: the reply the current create() call returned
    exc,              \* exc[p]: the exception p's except block is handling
    competitors,      \* run_cycle: the list read at the start of the cycle
    idx,              \* run_cycle: position of the for loop in competitors
    passes,           \* passes started so far, by cycles and by requests
    paused,           \* time.sleep(3) ran since the previous target's pass ended
    pass              \* pass[p][t]: what p's pass over target t did (this cycle /
                      \* this request): calls made, commits done, how it ended

vars == <<api_key, competitor, price_history, market_analysis, clock, pc, comp,
          products, feed, attempts, raw, exc, competitors, idx, passes, paused, pass>>

\* ------------------------------------------------------------ JSON values
JInt(n)    == [t |-> "int", n |-> n]
JFloat(n)  == [t |-> "float", tenths |-> n]      \* n/10, one decimal
JNumStr(n) == [t |-> "numstr", n |-> n]          \* a string spelling the integer n
JStr(s)    == [t |-> "str", s |-> s]             \* any other string
JNull      == [t |-> "null"]
JList(n)   == [t |-> "list", len |-> n]          \* a list of n bet objects
JObj(o)    == [t |-> "obj", o |-> o]
JMissing   == [t |-> "missing"]                  \* the key is absent
JDecStr(c) == [t |-> "decstr", cents |-> c]      \* a string spelling c/100, "10.00"
JBool(b)   == [t |-> "bool", b |-> b]            \* true / false

\* dict.get(key, default)
Get(v, default) == IF v.t = "missing" THEN default ELSE v

\* int(x) of Python: [ok, n]; ok = FALSE stands for ValueError / TypeError
PyInt(v) ==
    CASE v.t = "int"    -> [ok |-> TRUE, n |-> v.n]
      [] v.t = "numstr" -> [ok |-> TRUE, n |-> v.n]
      [] v.t = "float"  -> [ok |-> TRUE,
                            n  |-> IF v.tenths >= 0 THEN v.tenths \div 10
                                   ELSE -((-v.tenths) \div 10)]
      [] OTHER          -> [ok |-> FALSE, n |-> 0]

\* str(x) of a JSON string is the string itself; other values are rendered
PyStr(v) ==
    CASE v.t = "str"  -> v.s
      [] v.t = "null" -> "None"
      [] v.t = "list" -> "[...]"
      [] OTHER        -> "?"

\* float(x) of Python, in cents: [ok, cents]; ok = FALSE is ValueError / TypeError
PyFloat(v) ==
    CASE v.t = "decstr" -> [ok |-> TRUE, cents |-> v.cents]
      [] v.t = "numstr" -> [ok |-> TRUE, cents |-> 100 * v.n]
      [] v.t = "int"    -> [ok |-> TRUE, cents |-> 100 * v.n]
      [] v.t = "float"  -> [ok |-> TRUE, cents |-> 10 * v.tenths]
      [] v.t = "bool"   -> [ok |-> TRUE, cents |-> IF v.b THEN 100 ELSE 0]
      [] OTHER          -> [ok |-> FALSE, cents |-> 0]

\* bool(x) of a JSON value a dict lookup returned, as "if x:" tests it
Truthy(v) ==
    CASE v.t = "missing" -> FALSE
      [] v.t = "null"    -> FALSE
      [] v.t = "items"   -> Len(v.items) > 0
      [] OTHER           -> TRUE

JItems(s) == [t |-> "items", items |-> s]        \* a JSON array, elements kept

\* ------------------------------------------------- scraper.py: the fetcher
\* one entry of the feed's products array
RawProduct(title, variants) ==
    [title |-> title, variants |-> variants,
     handle |-> JStr("h"), updated_at |-> JStr("2024-01-01T00:00:00Z")]

Variant(price) == [price |-> price]

\* price of one feed entry: first variant only, 0.0 on any failure
price_of(p) ==
    LET variants == Get(p.variants, JItems(<<>>)) IN
    IF Truthy(variants)
    THEN LET f == PyFloat(Get(variants.items[1].price, JInt(0))) IN
         IF f.ok THEN f.cents ELSE 0
    ELSE 0

normalize_product(p) ==
    [product_name   |-> Get(p.title, JStr("Sin titulo")).s,
     price          |-> price_of(p),
     currency       |-> "USD",
     product_handle |-> Get(p.handle, JStr("")).s,
     updated_at     |-> Get(p.updated_at, JStr("")).s]

\* a response of GET {url}/products.json
Response(st, prods) == [status |-> st, products |-> prods]

\* a fetcher that rejects a feed without products
return_empty_raises == [raised |-> "ValueError", products |-> <<>>]

\* scraper.py lines 51-53: no products in the feed, return []
return_empty == [raised |-> "none", products |-> <<>>]

\* scrape_shopify: [raised, products]; raised # "none" is the exception
scrape_shopify(resp) ==
    IF resp.status = "timeout"
    THEN [raised |-> "Timeout", products |-> <<>>]
    ELSE IF resp.status = "http_error"
    THEN [raised |-> "HTTPError", products |-> <<>>]
    ELSE IF resp.status = "bad_json"
    THEN [raised |-> "requests.JSONDecodeError", products |-> <<>>]
    ELSE LET products_raw == Get(resp.products, JItems(<<>>)) IN
         IF ~Truthy(products_raw)
         THEN return_empty
         ELSE LET n == IF Len(products_raw.items) < MAX_PRODUCTS
                       THEN Len(products_raw.items) ELSE MAX_PRODUCTS IN
              IF \E i \in 1..n : Get(products_raw.items[i].title, JStr("")).t # "str"
              THEN [raised |-> "TypeError", products |-> <<>>]   \* line 75 slices the name
              ELSE [raised   |-> "none",
                    products |-> [i \in 1..n |->
                                     normalize_product(products_raw.items[i])]]

\* rows that each read the clock for themselves
price_rows_each(competitor_id, prods, now) ==
    [i \in 1..Len(prods) |->
        [competitor_id  |-> competitor_id,
         product_name   |-> prods[i].product_name,
         price          |-> prods[i].price,
         currency       |-> prods[i].currency,
         product_handle |-> prods[i].product_handle,
         updated_at     |-> prods[i].updated_at,
         timestamp      |-> now + i]]

\* save_price_history: the rows one call adds, all stamped with now
price_rows(competitor_id, prods, now) ==
    [i \in 1..Len(prods) |->
        [competitor_id  |-> competitor_id,
         product_name   |-> prods[i].product_name,
         price          |-> prods[i].price,
         currency       |-> prods[i].currency,
         product_handle |-> prods[i].product_handle,
         updated_at     |-> prods[i].updated_at,
         timestamp      |-> now]]

\* the catalog responses the storefronts give
Widget == RawProduct(JStr("Widget"), JItems(<<Variant(JDecStr(1000))>>))
Gadget == RawProduct(JStr("Gadget"), JMissing)

CoreFeeds ==
    { Response("timeout", JMissing),
      Response("ok", JMissing),
      Response("ok", JItems(<<Widget, Gadget>>)) }

Feeds ==
    { Response("timeout", JMissing),
      Response("http_error", JMissing),
      Response("bad_json", JMissing),
      Response("ok", JMissing),
      Response("ok", JItems(<<>>)),
      Response("ok", JItems(<<Widget>>)),
      Response("ok", JItems(<<Widget, Gadget>>)) }

\* feed entries for every shape of the variants array and of the price
NoVariants    == RawProduct(JStr("NoVariants"), JMissing)
EmptyVariants == RawProduct(JStr("EmptyVariants"), JItems(<<>>))
NoPrice       == RawProduct(JStr("NoPrice"), JItems(<<Variant(JMissing)>>))
FreePrice     == RawProduct(JStr("FreePrice"), JItems(<<Variant(JStr("free"))>>))
NullPrice     == RawProduct(JStr("NullPrice"), JItems(<<Variant(JNull), Variant(JDecStr(700))>>))
BoolPrice     == RawProduct(JStr("BoolPrice"), JItems(<<Variant(JBool(TRUE))>>))
TwoVariants   == RawProduct(JStr("TwoVariants"),
                            JItems(<<Variant(JDecStr(3000)), Variant(JDecStr(500))>>))
Refund        == RawProduct(JStr("Refund"), JItems(<<Variant(JDecStr(-500))>>))
IntPrice      == RawProduct(JStr("IntPrice"), JItems(<<Variant(JInt(12))>>))

\* catalog responses for the fetcher: the failures, the feed without products
\* in its three forms, and batches over every shape of entry
CatalogFeeds ==
    { Response("timeout", JMissing),
      Response("http_error", JMissing),
      Response("bad_json", JMissing),
      Response("ok", JMissing),
      Response("ok", JNull),
      Response("ok", JItems(<<>>)),
      Response("ok", JItems(<<NoVariants, EmptyVariants, NoPrice>>)),
      Response("ok", JItems(<<Widget, FreePrice, NullPrice, TwoVariants>>)),
      Response("ok", JItems(<<Refund, Widget, IntPrice>>)),
      Response("ok", JItems(<<BoolPrice>>)) }

\* --------------------------------------- ai_engine.py: the prompt builder
\* sum(prices)
RECURSIVE sum(_)
sum(prices) == IF prices = <<>> THEN 0 ELSE Head(prices) + sum(Tail(prices))

\* min(prices), max(prices) of a non-empty list
min(prices) == CHOOSE x \in {prices[i] : i \in 1..Len(prices)} :
                   \A i \in 1..Len(prices) : x <= prices[i]
max(prices) == CHOOSE x \in {prices[i] : i \in 1..Len(prices)} :
                   \A i \in 1..Len(prices) : x >= prices[i]

\* a filter that keeps every record
in_stats_all(prod) == TRUE

\* line 50: "if p['price'] > 0"
in_stats(prod) == prod.price > 0

\* build_analysis_prompt (lines 45-71): what the prompt renders of the batch;
\* prices in cents, the mean as the fraction num/den
build_analysis_prompt(productos_json) ==
    LET kept   == SelectSeq(productos_json, in_stats)
        prices == [i \in 1..Len(kept) |-> kept[i].price]
    IN  [products_text |-> [i \in 1..Len(productos_json) |->
                               [product_name |-> productos_json[i].product_name,
                                price        |-> productos_json[i].price]],
         items     |-> Len(productos_json),
         avg_price |-> IF prices # <<>>
                       THEN [num |-> sum(prices), den |-> Len(prices)]
                       ELSE [num |-> 0, den |-> 1],
         min_price |-> IF prices # <<>> THEN min(prices) ELSE 0,
         max_price |-> IF prices # <<>> THEN max(prices) ELSE 0]

\* ------------------------------------------- ai_engine.py: the normalizer
\* The reply text is a sequence of tokens: "FENCE" (three backticks), "json" (the
\* tag after a fence), "WS" (whitespace), "TEXT" (commentary), "OBJ" (the text
\* of a complete JSON object), "CUT" (the text of a truncated JSON object) and
\* "ARR" (the text of a JSON array).  data is the object "OBJ" spells.
Reply(text, data) == [text |-> text, data |-> data]

\* re.sub of a leading fence with its optional json tag (line 150)
re_sub_fence(raw_text) ==
    IF Len(raw_text) >= 1 /\ raw_text[1] = "FENCE"
    THEN IF Len(raw_text) >= 2 /\ raw_text[2] = "json"
         THEN SubSeq(raw_text, 3, Len(raw_text))
         ELSE Tail(raw_text)
    ELSE raw_text

\* str.rstrip of backticks: drops every trailing backtick
RECURSIVE rstrip_fence(_)
rstrip_fence(s) ==
    IF Len(s) > 0 /\ s[Len(s)] = "FENCE"
    THEN rstrip_fence(SubSeq(s, 1, Len(s) - 1))
    ELSE s

\* str.strip(): drops leading and trailing whitespace
RECURSIVE strip(_)
strip(s) ==
    IF Len(s) > 0 /\ s[1] = "WS" THEN strip(Tail(s))
    ELSE IF Len(s) > 0 /\ s[Len(s)] = "WS" THEN strip(SubSeq(s, 1, Len(s) - 1))
    ELSE s

clean_text(raw_text) == strip(rstrip_fence(re_sub_fence(raw_text)))

\* json.loads: "object", "array", or "error" (JSONDecodeError)
json_loads(text) ==
    IF text = <<"OBJ">> THEN "object"
    ELSE IF text = <<"ARR">> THEN "array"
    ELSE "error"

\* an f-string field {x}
Fmt(v) == IF v.t = "str" THEN v.s ELSE PyStr(v)

NoAlpha == [product |-> JMissing, reason |-> JMissing, suggested_action |-> JMissing]

\* alpha_text (lines 159-163)
alpha_text(alpha_opp) ==
    IF alpha_opp.t = "obj"
    THEN Fmt(Get(alpha_opp.o.product, JStr(""))) \o " - "
         \o Fmt(Get(alpha_opp.o.reason, JStr(""))) \o " ["
         \o Fmt(Get(alpha_opp.o.suggested_action, JStr(""))) \o "]"
    ELSE PyStr(alpha_opp)

\* the log line after the commit (line 178): slices alpha_opp.get(product)
log_saved(alpha_opp) ==
    IF alpha_opp.t # "obj" THEN "AttributeError"
    ELSE IF Get(alpha_opp.o.product, JStr("?")).t \notin {"str", "list", "items"}
    THEN "TypeError"
    ELSE "none"

\* int(analysis_data.get("sentiment_score", 50)) (line 155)
sentiment_of(d) == PyInt(Get(d.sentiment_score, JInt(DEFAULT_SCORE)))

\* analysis_data.get("market_bias", "NEUTRAL") (line 154)
bias_of(d) == Get(d.market_bias, JStr("NEUTRAL"))

\* generate_market_thesis from the reply on (lines 146-179):
\*   raised: the exception it ends with, "none" if it returns;
\*   rows:   the market_analysis row it adds to the session, if it got that far;
\*   after:  the exception raised after the commit (the row stays committed)
thesis(reply, competitor_id, now) ==
    LET kind == json_loads(clean_text(strip(reply.text)))   \* line 146: .strip()
        d    == reply.data
    IN  IF kind = "error"
        THEN [raised |-> "json.JSONDecodeError", rows |-> <<>>, after |-> "none"]
        ELSE IF kind # "object"
        THEN [raised |-> "AttributeError", rows |-> <<>>, after |-> "none"]
        ELSE IF ~sentiment_of(d).ok
        THEN [raised |-> "ValueError: int()", rows |-> <<>>, after |-> "none"]
        ELSE LET alpha_opp == Get(d.alpha_opportunity, JObj(NoAlpha))
                 bets      == Get(d.high_conviction_bets, JList(0))
             IN  [raised |-> "none",
                  rows   |-> << [competitor_id        |-> competitor_id,
                                 sentiment_score      |-> sentiment_of(d).n,
                                 bias                 |-> bias_of(d),
                                 alpha_opportunity    |-> alpha_text(alpha_opp),
                                 high_conviction_bets |-> [dumps |-> bets],
                                 raw_analysis         |-> [dumps |-> d],
                                 timestamp            |-> now] >>,
                  after  |-> log_saved(alpha_opp)]

\* the replies the reasoning service gives
Good ==
    [market_bias          |-> JStr("AGGRESSIVE"),
     sentiment_score      |-> JInt(72),
     alpha_opportunity    |-> JObj([product          |-> JStr("Widget"),
                                    reason           |-> JStr("gap"),
                                    suggested_action |-> JStr("undercut")]),
     high_conviction_bets |-> JList(3)]

GoodReplies == { Reply(<<"OBJ">>, Good) }

CoreReplies ==
    { Reply(<<"OBJ">>, Good),
      Reply(<<"CUT">>, JNull),
      Reply(<<"OBJ">>, [Good EXCEPT !.alpha_opportunity = JStr("Widget")]) }

Replies ==
    { Reply(<<"OBJ">>, Good),
      Reply(<<"FENCE", "json", "WS", "OBJ", "WS", "FENCE">>, Good),
      Reply(<<"TEXT", "WS", "OBJ">>, Good),
      Reply(<<"FENCE", "WS", "OBJ", "WS", "FENCE">>, Good),
      Reply(<<"OBJ", "WS", "TEXT">>, Good),
      Reply(<<"OBJ">>, [Good EXCEPT !.market_bias = JStr("BULLISH")]),
      Reply(<<"OBJ">>, [Good EXCEPT !.market_bias = JMissing]),
      Reply(<<"CUT">>, JNull),
      Reply(<<"ARR">>, JNull),
      Reply(<<"OBJ">>, [Good EXCEPT !.sentiment_score = JMissing]),
      Reply(<<"OBJ">>, [Good EXCEPT !.sentiment_score = JStr("high")]),
      Reply(<<"OBJ">>, [Good EXCEPT !.sentiment_score = JNull]),
      Reply(<<"OBJ">>, [Good EXCEPT !.sentiment_score = JInt(150)]),
      Reply(<<"OBJ">>, [Good EXCEPT !.sentiment_score = JInt(-5)]),
      Reply(<<"OBJ">>, [Good EXCEPT !.alpha_opportunity = JStr("Widget")]) }

\* ------------------------------------------------------------ the callers
NoReply == Reply(<<>>, JNull)

\* no catalog response yet
NoFeed == Response("none", JMissing)

\* db.session.add of each row of a list
RECURSIVE Added(_)
Added(rows) ==
    IF rows = <<>> THEN EmptyBag
    ELSE SetToBag({Head(rows)}) (+) Added(Tail(rows))

\* a commit that replaces the competitor's earlier rows by the new ones
session_commit_upsert(table, rows) ==
    [r \in {x \in DOMAIN table : \A i \in 1..Len(rows) :
                                    x.competitor_id # rows[i].competitor_id}
        |-> table[r]] (+) Added(rows)

\* db.session.add(record) for each row, then db.session.commit(): the table
\* after the commit (scraper.py 99-102, ai_engine.py 175-176)
session_commit(table, rows) == table (+) Added(rows)

NoPass == [fetch |-> 0, obs |-> 0, assess |-> 0, status |-> "none"]

\* Competitor.query.filter_by(is_active=True).all(): the rows in id order
ActiveList(S) ==
    CHOOSE s \in [1..Cardinality(S) -> S] :
        \A i, j \in 1..Cardinality(S) : i < j => s[i] < s[j]

\* the passes a cycle over the competitors S takes from the budget
CycleCost(S) == IF S = {} THEN 1 ELSE Cardinality(S)

\* a test that lets an empty list through
no_products_never(prods) == FALSE

\* "if not products:" (worker.py line 56), "if products:" (app.py line 94)
no_products(prods) == Len(prods) = 0

\* worker.py line 49: the for loop takes the next competitor, or the cycle ends
LoopNext(i, n) == [pc |-> IF i < n THEN "scrape" ELSE "idle", idx |-> i + 1]

\* worker.py lines 56-58: no products, continue
EmptyNext(i, n) == LoopNext(i, n)

\* a scrape failure that left run_cycle instead of continuing
ScrapeErrorNext_abort(i, n) == [pc |-> "idle", idx |-> i + 1]

\* worker.py lines 62-64: except Exception around scrape and save, continue
ScrapeErrorNext(i, n) == LoopNext(i, n)

\* an analysis failure after which the same competitor is fetched again
ThesisErrorNext_retry(i, n) == [pc |-> "scrape", idx |-> i]

\* an analysis failure that left run_cycle instead of continuing
ThesisErrorNext_abort(i, n) == [pc |-> "idle", idx |-> i + 1]

\* worker.py lines 75-77: except Exception around generate_market_thesis, continue
ThesisErrorNext(i, n) == LoopNext(i, n)

\* worker.py line 80: the pass succeeded, time.sleep(3) comes next
SuccessNext(i, n) == [pc |-> "sleep", idx |-> i]

\* app.py lines 97-102: flash(...) and redirect, whatever the outcome
Redirect(i, n) == [pc |-> "idle", idx |-> i]

\* the except block a raise reaches: worker.py has one per step, app.py one
\* for the whole pass (lines 100-101)
\* a fetch error that is swallowed: the pass goes on to the save
scrape_except_swallow(p) == "save"

scrape_except(p) == IF p = "worker" THEN "except_scrape" ELSE "except"
thesis_except(p) == IF p = "worker" THEN "except_thesis" ELSE "except"

\* a commit expires every object of the session: the worker's Competitor
\* objects are reloaded on their next use once the cycle has committed
Expired == \E t \in Targets : pass["worker"][t].obs > 0

\* worker.py lines 49-51: the loop body starts by reading comp.name; when the
\* object is expired and its row is gone the reload raises ObjectDeletedError,
\* outside both try blocks, and run_cycle ends with it
Enter(nxt) ==
    IF nxt.pc = "scrape" /\ Expired /\ competitors[nxt.idx] \notin competitor
    THEN [pc |-> "main_except", idx |-> nxt.idx]
    ELSE nxt

\* p goes on as nxt says; st is how the pass that just ended is reported
EndPass(p, st, nxt) ==
    LET to == IF p = "worker" THEN Enter(nxt) ELSE nxt IN
    /\ pass' = [pass EXCEPT ![p][comp[p]].status = st]
    /\ pc' = [pc EXCEPT ![p] = to.pc]
    /\ idx' = to.idx
    /\ comp' = [comp EXCEPT ![p] = IF to.pc = "scrape"
                                   THEN competitors[to.idx] ELSE 0]
    /\ products' = [products EXCEPT ![p] = <<>>]
    /\ feed' = [feed EXCEPT ![p] = NoFeed]
    /\ attempts' = [attempts EXCEPT ![p] = 0]
    /\ raw' = [raw EXCEPT ![p] = NoReply]
    /\ exc' = [exc EXCEPT ![p] = IF to.pc = "main_except"
                                 THEN "ObjectDeletedError" ELSE "none"]
    /\ paused' = (paused /\ p # "worker")

\* an exception e leaves the try block and reaches the except block at
Raise(p, e, at) ==
    /\ pc' = [pc EXCEPT ![p] = at]
    /\ exc' = [exc EXCEPT ![p] = e]
    /\ UNCHANGED <<comp, idx, products, paused>>

\* a client that retries once more
should_retry_more(sent) == sent < MAX_RETRIES + 2

\* the Groq client (max_retries = 2): after sent requests failed, send another?
should_retry(sent) == sent < MAX_RETRIES + 1

Init ==
    /\ api_key \in BOOLEAN
    /\ competitor = {}
    /\ price_history = EmptyBag
    /\ market_analysis = EmptyBag
    /\ clock = 0
    /\ pc = [p \in Procs |-> "idle"]
    /\ comp = [p \in Procs |-> 0]
    /\ products = [p \in Procs |-> <<>>]
    /\ feed = [p \in Procs |-> NoFeed]
    /\ attempts = [p \in Procs |-> 0]
    /\ raw = [p \in Procs |-> NoReply]
    /\ exc = [p \in Procs |-> "none"]
    /\ competitors = <<>>
    /\ idx = 0
    /\ passes = 0
    /\ paused = FALSE
    /\ pass = [p \in Procs |-> [t \in Targets |-> NoPass]]

\* app.py add_competitor: a new row unless the url is already there
add_competitor(t) ==
    /\ t \notin competitor
    /\ competitor' = competitor \cup {t}
    /\ UNCHANGED <<api_key, feed, price_history, market_analysis, clock, pc, comp,
                   products, attempts, raw, exc, competitors, idx, passes, paused, pass>>

\* rows of a table that are not competitor t's
Without(table, t) ==
    [r \in {x \in DOMAIN table : x.competitor_id # t} |-> table[r]]

\* app.py delete_competitor: the row goes, and with it (cascade, models.py
\* 24-25) the competitor's price history and analyses
delete_competitor(t) ==
    /\ t \in competitor
    /\ competitor' = competitor \ {t}
    /\ price_history' = Without(price_history, t)
    /\ market_analysis' = Without(market_analysis, t)
    /\ UNCHANGED <<api_key, feed, clock, pc, comp, products, attempts, raw, exc,
                   competitors, idx, passes, paused, pass>>

\* worker.py main (lines 106-112) and the head of run_cycle (lines 40-49)
StartCycle ==
    /\ pc["worker"] = "idle"
    /\ passes + CycleCost(competitor) <= MaxPasses
    /\ passes' = passes + CycleCost(competitor)
    /\ competitors' = ActiveList(competitor)
    /\ idx' = 1
    /\ pc' = [pc EXCEPT !["worker"] = IF competitor = {} THEN "idle" ELSE "scrape"]
    /\ comp' = [comp EXCEPT !["worker"] = IF competitor = {} THEN 0
                                          ELSE ActiveList(competitor)[1]]
    /\ pass' = [pass EXCEPT !["worker"] = [t \in Targets |-> NoPass]]
    /\ paused' = FALSE
    /\ UNCHANGED <<api_key, feed, competitor, price_history, market_analysis, clock,
                   products, attempts, raw, exc>>

\* worker.py line 41: the query of a cycle raises (the database is locked or
\* unreachable); nothing in run_cycle catches it
QueryRaises ==
    /\ pc["worker"] = "idle"
    /\ passes < MaxPasses
    /\ passes' = passes + 1
    /\ pc' = [pc EXCEPT !["worker"] = "main_except"]
    /\ exc' = [exc EXCEPT !["worker"] = "OperationalError"]
    /\ UNCHANGED <<api_key, feed, competitor, price_history, market_analysis, clock,
                   comp, products, attempts, raw, competitors, idx, paused, pass>>

\* a handler of main that leaves the loop
MainExceptNext_break == "stopped"

\* worker.py lines 117-120: except Exception logs, then time.sleep(interval)
MainExceptNext == "idle"

\* worker.py lines 114-116: Ctrl+C; KeyboardInterrupt is no Exception, so no
\* handler of run_cycle catches it, and main breaks out of its loop (or the
\* process ends in the sleep of line 120)
Shutdown ==
    /\ pc["worker"] # "stopped"
    /\ pc' = [pc EXCEPT !["worker"] = "stopped"]
    /\ exc' = [exc EXCEPT !["worker"] = "KeyboardInterrupt"]
    /\ UNCHANGED <<api_key, feed, competitor, price_history, market_analysis, clock,
                   comp, products, attempts, raw, competitors, idx, passes,
                   paused, pass>>

\* app.py run_now (lines 87-92): the request for competitor t arrives
RunNow(t) ==
    /\ pc["web"] = "idle"
    /\ passes < MaxPasses
    /\ t \in competitor
    /\ passes' = passes + 1
    /\ pc' = [pc EXCEPT !["web"] = "scrape"]
    /\ comp' = [comp EXCEPT !["web"] = t]
    /\ pass' = [pass EXCEPT !["web"] = [u \in Targets |-> NoPass]]
    /\ UNCHANGED <<api_key, feed, competitor, price_history, market_analysis, clock,
                   products, attempts, raw, exc, competitors, idx, paused>>

\* scrape_shopify(comp.url) returns or raises (worker.py 55-58, app.py 93-99);
\* F: the responses the storefront may give
Scrape(p, F) ==
    /\ pc[p] = "scrape"
    /\ \E resp \in F :
          LET r == scrape_shopify(resp) IN
          /\ feed' = [feed EXCEPT ![p] = resp]
          /\ IF r.raised # "none"
             THEN /\ Raise(p, r.raised, scrape_except(p))
                  /\ pass' = [pass EXCEPT ![p][comp[p]].fetch = @ + 1]
             ELSE IF no_products(r.products)
             THEN /\ pass' = [pass EXCEPT ![p][comp[p]].fetch = @ + 1]
                  /\ pc' = [pc EXCEPT ![p] = "empty"]
                  /\ UNCHANGED <<comp, idx, products, exc, paused>>
             ELSE /\ products' = [products EXCEPT ![p] = r.products]
                  /\ pc' = [pc EXCEPT ![p] = "save"]
                  /\ pass' = [pass EXCEPT ![p][comp[p]].fetch = @ + 1]
                  /\ UNCHANGED <<comp, idx, exc, paused>>
    /\ UNCHANGED <<api_key, competitor, price_history, market_analysis, clock,
                   attempts, raw, competitors, passes>>

\* no products: the warning, then continue (worker.py 56-58) or the
\* "warning" flash (app.py 98-99, 102)
Empty(p) ==
    /\ pc[p] = "empty"
    /\ EndPass(p, "empty", IF p = "worker" THEN EmptyNext(idx, Len(competitors))
                           ELSE Redirect(idx, Len(competitors)))
    /\ UNCHANGED <<api_key, competitor, price_history, market_analysis, clock,
                   competitors, passes>>

\* a pass that goes on to the analysis without persisting its batch
Save_unsaved(p) ==
    /\ pc[p] = "save"
    /\ pc' = [pc EXCEPT ![p] = "thesis"]
    /\ UNCHANGED <<api_key, feed, competitor, price_history, market_analysis, clock,
                   comp, products, attempts, raw, exc, competitors, idx, passes,
                   paused, pass>>

\* save_price_history(comp.id, products, ...): the commit succeeds or raises
Save(p) ==
    /\ pc[p] = "save"
    /\ \E committed \in BOOLEAN :
          IF committed
          THEN /\ price_history' =
                      session_commit(price_history,
                                     price_rows(comp[p], products[p], clock))
               /\ clock' = clock + 1
               /\ pc' = [pc EXCEPT ![p] = "thesis"]
               /\ pass' = [pass EXCEPT ![p][comp[p]].obs = @ + 1]
               /\ UNCHANGED <<comp, idx, products, exc, paused>>
          ELSE /\ Raise(p, "SQLAlchemyError", scrape_except(p))
               /\ UNCHANGED <<price_history, clock, pass>>
    /\ UNCHANGED <<api_key, feed, competitor, market_analysis, attempts, raw,
                   competitors, passes>>

\* the call of generate_market_thesis (worker.py 68-74, app.py 96): its
\* arguments comp.id and comp.name reload the object the save's commit
\* expired, which raises ObjectDeletedError when the row is gone; then lines
\* 123-133, the credential check
ThesisStart(p) ==
    /\ pc[p] = "thesis"
    /\ IF comp[p] \notin competitor
       THEN Raise(p, "ObjectDeletedError", thesis_except(p))
       ELSE IF ~api_key
       THEN Raise(p, "ValueError: GROQ_API_KEY", thesis_except(p))
       ELSE /\ pc' = [pc EXCEPT ![p] = "request"]
            /\ UNCHANGED <<comp, idx, products, exc, paused>>
    /\ UNCHANGED <<api_key, feed, competitor, price_history, market_analysis, clock,
                   attempts, raw, competitors, passes, pass>>

\* client.chat.completions.create (lines 130-144): one request fails, with an
\* error the client retries (connection, timeout, 408/409/429/5xx) or not
AttemptFails(p) ==
    /\ pc[p] = "request"
    /\ attempts' = [attempts EXCEPT ![p] = @ + 1]
    /\ \E retryable \in BOOLEAN :
          IF retryable /\ should_retry(attempts[p] + 1)
          THEN UNCHANGED <<pc, comp, idx, products, exc, paused>>
          ELSE Raise(p, IF retryable THEN "APIConnectionError"
                        ELSE "APIStatusError", thesis_except(p))
    /\ UNCHANGED <<api_key, feed, competitor, price_history, market_analysis, clock,
                   raw, competitors, passes, pass>>

\* a request succeeds: generate_market_thesis runs on to its end (lines
\* 146-179); R: the replies the service may give
AttemptReplies(p, R) ==
    /\ pc[p] = "request"
    /\ attempts' = [attempts EXCEPT ![p] = @ + 1]
    /\ \E reply \in R, committed \in BOOLEAN :
          LET res == thesis(reply, comp[p], clock) IN
          /\ raw' = [raw EXCEPT ![p] = reply]
          /\ IF res.raised # "none"
             THEN /\ Raise(p, res.raised, thesis_except(p))
                  /\ UNCHANGED <<market_analysis, clock, pass>>
             ELSE IF ~committed
             THEN /\ Raise(p, "SQLAlchemyError", thesis_except(p))
                  /\ UNCHANGED <<market_analysis, clock, pass>>
             ELSE /\ market_analysis' = session_commit(market_analysis, res.rows)
                  /\ clock' = clock + 1
                  /\ pass' = [pass EXCEPT ![p][comp[p]].assess = @ + 1]
                  /\ IF res.after # "none"
                     THEN Raise(p, res.after, thesis_except(p))
                     ELSE /\ pc' = [pc EXCEPT ![p] = "done"]
                          /\ UNCHANGED <<comp, idx, products, exc, paused>>
    /\ UNCHANGED <<api_key, feed, competitor, price_history, competitors, passes>>

\* the except block: log.error and continue (worker.py 62-64, 75-77), or the
\* "error" flash and the redirect (app.py 100-102)
Except(p) ==
    /\ pc[p] \in {"except", "except_scrape", "except_thesis"}
    /\ EndPass(p, "error",
               IF pc[p] = "except_scrape" THEN ScrapeErrorNext(idx, Len(competitors))
               ELSE IF pc[p] = "except_thesis" THEN ThesisErrorNext(idx, Len(competitors))
               ELSE Redirect(idx, Len(competitors)))
    /\ UNCHANGED <<api_key, competitor, price_history, market_analysis, clock,
                   competitors, passes>>

\* generate_market_thesis returned: on to time.sleep(3) (worker.py 80), or
\* the "success" flash and the redirect (app.py 97, 102)
Done(p) ==
    /\ pc[p] = "done"
    /\ EndPass(p, "success", IF p = "worker" THEN SuccessNext(idx, Len(competitors))
                             ELSE Redirect(idx, Len(competitors)))
    /\ UNCHANGED <<api_key, competitor, price_history, market_analysis, clock,
                   competitors, passes>>

\* worker.py line 80: time.sleep(3) is over, the loop goes on
Sleep ==
    /\ pc["worker"] = "sleep"
    /\ paused' = TRUE
    /\ LET nxt == Enter(LoopNext(idx, Len(competitors))) IN
          /\ pc' = [pc EXCEPT !["worker"] = nxt.pc]
          /\ idx' = nxt.idx
          /\ comp' = [comp EXCEPT !["worker"] = IF nxt.pc = "scrape"
                                                THEN competitors[nxt.idx] ELSE 0]
          /\ exc' = [exc EXCEPT !["worker"] = IF nxt.pc = "main_except"
                                              THEN "ObjectDeletedError" ELSE "none"]
    /\ UNCHANGED <<api_key, feed, competitor, price_history, market_analysis, clock,
                   products, attempts, raw, competitors, passes,
                   pass>>

\* worker.py main, lines 117-120: an exception that left run_cycle is logged
\* and the worker sleeps the interval like after any other cycle
MainExcept ==
    /\ pc["worker"] = "main_except"
    /\ pc' = [pc EXCEPT !["worker"] = MainExceptNext]
    /\ exc' = [exc EXCEPT !["worker"] = "none"]
    /\ UNCHANGED <<api_key, feed, competitor, price_history, market_analysis, clock,
                   comp, products, attempts, raw, competitors, idx, passes,
                   paused, pass>>

Next ==
    \/ \E t \in Targets : add_competitor(t)
    \/ StartCycle
    \/ \E t \in Targets : RunNow(t)
    \/ \E p \in Procs : Scrape(p, CoreFeeds)
    \/ \E p \in Procs : Empty(p)
    \/ \E p \in Procs : Save(p)
    \/ \E p \in Procs : ThesisStart(p)
    \/ \E p \in Procs : AttemptFails(p)
    \/ \E p \in Procs : AttemptReplies(p, CoreReplies)
    \/ \E p \in Procs : Except(p)
    \/ \E p \in Procs : Done(p)
    \/ Sleep

Spec == Init /\ [][Next]_vars

\* the manual trigger alone, against every catalog response and every reply
NextThesis ==
    \/ \E t \in Targets : add_competitor(t)
    \/ \E t \in Targets : RunNow(t)
    \/ Scrape("web", Feeds)
    \/ Empty("web")
    \/ Save("web")
    \/ ThesisStart("web")
    \/ AttemptFails("web")
    \/ AttemptReplies("web", Replies)
    \/ Except("web")
    \/ Done("web")

SpecThesis == Init /\ [][NextThesis]_vars

\* the scheduled cycle while the operator adds and deletes competitors
NextDelete ==
    \/ \E t \in Targets : add_competitor(t)
    \/ \E t \in Targets : delete_competitor(t)
    \/ StartCycle
    \/ Scrape("worker", CoreFeeds)
    \/ Empty("worker")
    \/ Save("worker")
    \/ ThesisStart("worker")
    \/ AttemptFails("worker")
    \/ AttemptReplies("worker", CoreReplies)
    \/ Except("worker")
    \/ Done("worker")
    \/ Sleep
    \/ MainExcept

SpecDelete == Init /\ [][NextDelete]_vars

\* the fetcher and the prompt builder in a manual pass, against every catalog
\* response
NextFetch ==
    \/ \E t \in Targets : add_competitor(t)
    \/ \E t \in Targets : RunNow(t)
    \/ Scrape("web", CatalogFeeds)
    \/ Empty("web")
    \/ Save("web")
    \/ ThesisStart("web")
    \/ AttemptFails("web")
    \/ AttemptReplies("web", GoodReplies)
    \/ Except("web")
    \/ Done("web")

SpecFetch == Init /\ [][NextFetch]_vars

\* the steps of the worker process, the interrupt left out
WorkerStep ==
    \/ StartCycle
    \/ QueryRaises
    \/ Scrape("worker", Feeds)
    \/ Empty("worker")
    \/ Save("worker")
    \/ ThesisStart("worker")
    \/ AttemptFails("worker")
    \/ AttemptReplies("worker", CoreReplies)
    \/ Except("worker")
    \/ Done("worker")
    \/ Sleep
    \/ MainExcept

\* the worker alone, against every catalog response, until it is interrupted
NextLive ==
    \/ \E t \in Targets : add_competitor(t)
    \/ WorkerStep
    \/ Shutdown

\* every call the worker blocks in returns or raises (requests timeout=15,
\* httpx timeout=30, time.sleep), so a worker that can step does step
SpecLive == Init /\ [][NextLive]_vars /\ WF_vars(WorkerStep)

TypeOK ==
    /\ competitor \subseteq Targets
    /\ pc \in [Procs -> {"idle", "scrape", "empty", "save", "thesis", "request",
                         "done", "except", "except_scrape", "except_thesis",
                         "sleep", "main_except", "stopped"}]
    /\ \A p \in Procs : attempts[p] \in 0..(MAX_RETRIES + 1)

\* ----------------------------------------------------------------- claims
\* the rows a step added to a table
NewRows(old, new) == BagToSet(new (-) old)

\* the cycle has called scrape_shopify for the j-th listed competitor
Fetched(j) == j < idx \/ (j = idx /\ pc["worker"] # "scrape")

C1_Counts ==
    /\ \A j \in 1..Len(competitors) :
          pass["worker"][competitors[j]].fetch = IF Fetched(j) THEN 1 ELSE 0
    /\ (pc["worker"] = "idle" /\ idx > 0) => idx = Len(competitors) + 1

C1_Writes ==
    /\ price_history \sqsubseteq price_history'
    /\ market_analysis \sqsubseteq market_analysis'
    /\ \A r \in NewRows(price_history, price_history') :
          \E p \in Procs : /\ pc[p] = "save" /\ pc'[p] # "save"
                           /\ r.competitor_id = comp[p]
    /\ \A r \in NewRows(market_analysis, market_analysis') :
          \E p \in Procs : /\ pc[p] = "request" /\ pc'[p] # "request"
                           /\ r.competitor_id = comp[p]

ReasoningFailed(p) == exc[p] \in {"APIConnectionError", "APIStatusError"}

\* the loop of run_cycle goes on from position i as the for statement says
GoesOn(i) ==
    IF i < Len(competitors)
    THEN pc'["worker"] = "scrape" /\ comp'["worker"] = competitors[i + 1]
    ELSE pc'["worker"] = "idle"

\* the batch p's pass fetched is in price_history, stamped with one timestamp
BatchPersisted(p) ==
    \E ts \in 0..clock :
        \A i \in 1..Len(products[p]) :
            BagIn(price_rows(comp[p], products[p], ts)[i], price_history)

\* the reply could not be parsed by json.loads after the cleaning
Unparsable(r) == r # NoReply /\ json_loads(clean_text(strip(r.text))) = "error"

\* the reply parsed to an object
Parsed(r) == r # NoReply /\ json_loads(clean_text(strip(r.text))) = "object"

\* C2: when the reply cannot be parsed, the analysis step does not raise the
\* parse error to its caller; a row with bias NEUTRAL, score 50, no bets and
\* the raw text is persisted for the competitor.
C2_DegradedOnParseFailure ==
    \A p \in Procs :
        Unparsable(raw[p]) =>
            /\ exc[p] # "json.JSONDecodeError"
            /\ exc[p] = "none" =>
                  /\ pass[p][comp[p]].assess = 1
                  /\ \E row \in BagToSet(market_analysis) :
                        /\ row.competitor_id = comp[p]
                        /\ row.bias = JStr("NEUTRAL")
                        /\ row.sentiment_score = 50
                        /\ row.high_conviction_bets = [dumps |-> JList(0)]
                        /\ row.raw_analysis = [text |-> raw[p].text]

C3_Caught ==
    (pc["worker"] = "except_thesis" /\ ReasoningFailed("worker")) =>
        /\ pass["worker"][comp["worker"]].assess = 0
        /\ pass["worker"][comp["worker"]].obs = 1
        /\ BatchPersisted("worker")

C3_Continues ==
    (/\ pc["worker"] = "except_thesis" /\ ReasoningFailed("worker")
     /\ pc'["worker"] # "except_thesis") =>
        /\ market_analysis' = market_analysis
        /\ price_history' = price_history
        /\ pass'["worker"][comp["worker"]] =
               [fetch |-> 1, obs |-> 1, assess |-> 0, status |-> "error"]
        /\ GoesOn(idx)

\* C3: when the reasoning call of a scheduled pass fails for good, the pass
\* has persisted its observation batch and no assessment; the handler writes
\* nothing, removes nothing, and the cycle goes on to the next competitor.
C3_ReasoningFailureSkips == []C3_Caught /\ [][C3_Continues]_vars

\* the third attempt failed for the first of two listed competitors
C3_Witness ==
    /\ pc["worker"] = "except_thesis" /\ exc["worker"] = "APIConnectionError"
    /\ attempts["worker"] = 3 /\ idx = 1 /\ Len(competitors) = 2

C5_NothingDone ==
    \A p \in Procs :
        /\ pc[p] \in {"save", "thesis", "request", "done"} => Len(products[p]) > 0
        /\ pc[p] = "empty" =>
              /\ pass[p][comp[p]].obs = 0 /\ pass[p][comp[p]].assess = 0
              /\ attempts[p] = 0 /\ raw[p] = NoReply /\ exc[p] = "none"
        /\ \A t \in Targets :
              pass[p][t].status = "empty" =>
                  pass[p][t].obs = 0 /\ pass[p][t].assess = 0

C5_Skips ==
    \A p \in Procs :
        (pc[p] = "empty" /\ pc'[p] # "empty") =>
            /\ market_analysis' = market_analysis
            /\ price_history' = price_history
            /\ pass'[p][comp[p]].status = "empty"
            /\ IF p = "worker" THEN GoesOn(idx) ELSE pc'[p] = "idle"

\* C5: a fetch that returns no products never reaches the save or the
\* analysis; nothing is written and no request is sent for it; the cycle
\* goes on to the next competitor and the manual trigger reports "empty".
C5_EmptyCatalog == []C5_NothingDone /\ [][C5_Skips]_vars

\* both a scheduled pass and a manual pass ended on an empty catalog
C5_Witness ==
    /\ \E t \in Targets : pass["web"][t] = [NoPass EXCEPT !.fetch = 1, !.status = "empty"]
    /\ \E t \in Targets : pass["worker"][t] = [NoPass EXCEPT !.fetch = 1, !.status = "empty"]

\* C6: the missing credential is reported before any network call and before
\* anything is persisted, and not to the handler of ordinary per-target errors.
C6_MissingCredentialFatal ==
    \A p \in Procs :
        exc[p] = "ValueError: GROQ_API_KEY" =>
            /\ pass[p][comp[p]].fetch = 0
            /\ pass[p][comp[p]].obs = 0
            /\ pc[p] \notin {"except", "except_thesis"}

\* C7: the fetch of every competitor after the first starts after the pause.
C7_PauseBetweenTargets ==
    (pc["worker"] = "scrape" /\ idx > 1) => paused

\* C8: a parsed reply whose sentiment_score is missing or not numeric does not
\* make the analysis raise, and the row persisted for it has score 50.
C8_ScoreCoercion ==
    \A p \in Procs :
        (/\ Parsed(raw[p])
         /\ raw[p].data.sentiment_score.t \in {"missing", "str", "null", "list"}) =>
            /\ exc[p] # "ValueError: int()"
            /\ pass[p][comp[p]].assess = 1 =>
                  \E row \in BagToSet(market_analysis) :
                      row.competitor_id = comp[p] /\ row.sentiment_score = 50

\* C9: every persisted assessment has a sentiment score in 0..100.
C9_ScoreRange ==
    \A row \in BagToSet(market_analysis) :
        row.sentiment_score >= 0 /\ row.sentiment_score <= 100

\* C10: a finished manual pass reports success, empty or error, and success
\* exactly when the observation batch and the assessment were both persisted.
C10_ManualStatus ==
    \A t \in Targets :
        pass["web"][t].status # "none" =>
            /\ pass["web"][t].status \in {"success", "empty", "error"}
            /\ pass["web"][t].status = "success" <=>
                  (pass["web"][t].obs = 1 /\ pass["web"][t].assess = 1)

\* the reply parsed to an object whose alpha_opportunity is a bare string
BareAlpha(r) == Parsed(r) /\ r.data.alpha_opportunity.t = "str"

\* C11: when the parsed reply carries alpha_opportunity as a bare string, the
\* analysis stores that string verbatim, persists the row and returns without
\* raising, so that the caller sees a successful analysis.
C11_BareStringAlpha ==
    \A p \in Procs :
        BareAlpha(raw[p]) =>
            /\ exc[p] \notin {"AttributeError", "TypeError"}
            /\ pass[p][comp[p]].assess = 1 =>
                  \E row \in BagToSet(market_analysis) :
                      /\ row.competitor_id = comp[p]
                      /\ row.alpha_opportunity = raw[p].data.alpha_opportunity.s

C12_Ordered ==
    /\ \A p \in Procs, t \in Targets :
          /\ pass[p][t].assess <= pass[p][t].obs
          /\ pass[p][t].obs <= pass[p][t].fetch
    /\ \A p \in Procs :
          pc[p] \in {"scrape", "empty", "save"} => pass[p][comp[p]].assess = 0
    /\ \A a \in BagToSet(market_analysis) :
          \E o \in BagToSet(price_history) :
              o.competitor_id = a.competitor_id /\ o.timestamp < a.timestamp

C12_AssessAfterBatch ==
    \A a \in NewRows(market_analysis, market_analysis') :
        \E p \in Procs :
            /\ pc[p] = "request" /\ a.competitor_id = comp[p]
            /\ pass[p][comp[p]].obs = 1 /\ pass[p][comp[p]].assess = 0
            /\ BatchPersisted(p)
            /\ price_history' = price_history

\* C12: in every pass the assessment of a target is persisted only after the
\* observation batch of the same pass and target; whatever step the process
\* stops at, a target has no rows of the pass, or its observations alone, or
\* both, and the store holds no assessment without earlier observations.
C12_PassOrdering == []C12_Ordered /\ [][C12_AssessAfterBatch]_vars

\* a scheduled pass stopped half way (observations, no assessment) while a
\* manual pass persisted both
C12_Witness ==
    /\ \E t \in Targets : pass["worker"][t].obs = 1 /\ pass["worker"][t].assess = 0
                          /\ pass["worker"][t].status = "error"
    /\ \E t \in Targets : pass["web"][t].obs = 1 /\ pass["web"][t].assess = 1

\* p's pass over its competitor is between its fetch and its last write
Writing(p) == pc[p] \in {"save", "thesis", "request"}

\* C13: no reachable state has a manual pass and a scheduled pass in progress
\* on the same competitor.
C13_NoOverlap ==
    ~(Writing("worker") /\ Writing("web") /\ comp["worker"] = comp["web"])

C14_Inserts ==
    /\ price_history \sqsubseteq price_history'
    /\ market_analysis \sqsubseteq market_analysis'

\* C14: under every interleaving of scheduled cycles and manual passes, a step
\* of the core leaves every persisted observation row and assessment row in
\* place with all its field values; the tables only grow.
C14_AppendOnly == [][C14_Inserts]_vars

\* one competitor has two batches and two assessments, persisted by two passes
C14_Witness ==
    /\ \E a, b \in BagToSet(price_history) :
          a.competitor_id = b.competitor_id /\ a.timestamp < b.timestamp
    /\ \E a, b \in BagToSet(market_analysis) :
          a.competitor_id = b.competitor_id /\ a.timestamp < b.timestamp

C15_WritesLive ==
    /\ \A r \in NewRows(price_history, price_history') :
          r.competitor_id \in competitor
    /\ \A r \in NewRows(market_analysis, market_analysis') :
          r.competitor_id \in competitor

\* C15: every observation row and every assessment row is written for a
\* competitor that exists when the row is written, also when the operator
\* deletes the competitor while the cycle that listed it is still running.
C15_LiveTarget == [][C15_WritesLive]_vars

\* the fetch of p's pass failed: timeout, non-2xx status, malformed JSON
FetchFailed(p) == exc[p] \in {"Timeout", "HTTPError", "requests.JSONDecodeError"}

C16_Caught ==
    FetchFailed("worker") =>
        /\ pc["worker"] = "except_scrape"
        /\ pass["worker"][comp["worker"]] = [NoPass EXCEPT !.fetch = 1]
        /\ products["worker"] = <<>>
        /\ attempts["worker"] = 0 /\ raw["worker"] = NoReply

C16_Skipped ==
    (FetchFailed("worker") /\ pc'["worker"] \notin {"except_scrape", "stopped"}) =>
        /\ price_history' = price_history
        /\ market_analysis' = market_analysis
        /\ pass'["worker"][comp["worker"]] =
               [fetch |-> 1, obs |-> 0, assess |-> 0, status |-> "error"]
        /\ GoesOn(idx)

\* C16: a fetch that fails (timeout, non-2xx status, malformed JSON) is caught
\* by run_cycle; the pass has written no observation and no assessment and
\* has sent no request to the reasoning service, the handler writes nothing,
\* and the cycle goes on to the next competitor.
C16_FetchFailureSkips == []C16_Caught /\ [][C16_Skipped]_vars

\* the second competitor's feed is malformed after the first one's fetch failed
C16_Witness ==
    /\ pc["worker"] = "except_scrape" /\ exc["worker"] = "requests.JSONDecodeError"
    /\ idx = 2
    /\ pass["worker"][competitors[1]] =
           [fetch |-> 1, obs |-> 0, assess |-> 0, status |-> "error"]

\* the product lists scrape_shopify can return
Batches == {scrape_shopify(f).products : f \in Feeds} \ {<<>>}

\* row r is in the store together with a whole batch stamped like it
InBatch(r) ==
    \E prods \in Batches :
        LET rows == price_rows(r.competitor_id, prods, r.timestamp) IN
        /\ \E i \in 1..Len(rows) : rows[i] = r
        /\ \A i \in 1..Len(rows) : BagIn(rows[i], price_history)

C17_Stored == \A r \in BagToSet(price_history) : InBatch(r)

C17_OneCall ==
    LET new == price_history' (-) price_history IN
    /\ \A a, b \in BagToSet(new) : a.timestamp = b.timestamp
    /\ new # EmptyBag =>
          \E p \in Procs :
              /\ pc[p] = "save" /\ BagCardinality(new) = Len(products[p])
              /\ \A a \in BagToSet(new) : a.timestamp = clock

\* C17: the rows one call of save_price_history persists, one per product of
\* the batch, all carry the same capture timestamp, whatever the batch size,
\* and every row in the store stands with its whole batch under one timestamp.
C17_SharedTimestamp == []C17_Stored /\ [][C17_OneCall]_vars

\* the store holds a batch of two rows under one timestamp and another batch
C17_Witness ==
    /\ \E a, b \in BagToSet(price_history) :
          a # b /\ a.timestamp = b.timestamp /\ a.competitor_id = b.competitor_id
    /\ \E a, b \in BagToSet(price_history) : a.timestamp # b.timestamp

\* run_cycle is running (RUNNING); "idle" is the sleep of the interval (IDLE)
InCycle == pc["worker"] \notin {"idle", "stopped"}

C18_CycleEnds == InCycle ~> (pc["worker"] \in {"idle", "stopped"})

C18_TicksAgain ==
    \A n \in 0..(MaxPasses - 1) :
        (pc["worker"] = "idle" /\ passes = n)
            ~> (passes > n \/ pc["worker"] = "stopped")

C18_OnlyShutdown ==
    pc["worker"] = "stopped" => exc["worker"] = "KeyboardInterrupt"

\* C18: every cycle ends, whatever its fetches and reasoning calls returned or
\* raised; after every cycle, also one in which every competitor failed or
\* run_cycle itself raised, the worker sleeps and starts the next cycle (as
\* long as the bound on passes lets a cycle start); only the interrupt ends
\* the loop.
C18_SchedulerLoop == C18_CycleEnds /\ C18_TicksAgain /\ []C18_OnlyShutdown

\* a cycle in which every competitor failed is over, the next one can start
C18_Witness ==
    /\ pc["worker"] = "idle" /\ idx = Len(competitors) + 1 /\ idx > 1
    /\ \A j \in 1..Len(competitors) :
          pass["worker"][competitors[j]].status = "error"
    /\ passes < MaxPasses

\* the biases the assessment may carry
Biases == {JStr("AGGRESSIVE"), JStr("DEFENSIVE"), JStr("NEUTRAL")}

\* C19: the bias of every persisted assessment row is AGGRESSIVE, DEFENSIVE or
\* NEUTRAL, whatever market_bias the reply carried, and NEUTRAL when the reply
\* carried none.
C19_BiasDomain ==
    /\ \A row \in BagToSet(market_analysis) : row.bias \in Biases
    /\ \A row \in BagToSet(market_analysis) :
          row.raw_analysis.dumps.market_bias = JMissing => row.bias = JStr("NEUTRAL")

\* the tokens that decorate a reply: fences, the json tag, whitespace, commentary
Decoration == {"FENCE", "json", "WS", "TEXT"}

IsContent(tok) == tok \notin Decoration

\* the reply text without its decoration
Undecorated(text) == SelectSeq(text, IsContent)

\* C20: a reply that is a valid JSON object wrapped in code fences (with or
\* without the json tag) and in leading or trailing commentary is parsed to
\* the same assessment as the object alone.
C20_DecorationTolerance ==
    \A p \in Procs :
        (raw[p] # NoReply /\ Undecorated(raw[p].text) = <<"OBJ">>) =>
            LET plain == thesis(Reply(<<"OBJ">>, raw[p].data), comp[p], clock)
                got   == thesis(raw[p], comp[p], clock)
            IN  /\ got.raised = plain.raised
                /\ got.rows = plain.rows
                /\ exc[p] # "json.JSONDecodeError"

\* the feed is a successful response whose products are missing, null or empty
EmptyFeed(f) ==
    /\ f.status = "ok"
    /\ \/ f.products \in {JMissing, JNull}
       \/ f.products = JItems(<<>>)

\* C21: for every successful catalog response whose products array is missing,
\* null or empty, scrape_shopify returns the empty list and does not raise.
C21_ReturnsEmpty ==
    \A p \in Procs :
        EmptyFeed(feed[p]) =>
            /\ scrape_shopify(feed[p]) = [raised |-> "none", products |-> <<>>]
            /\ pc[p] = "empty" /\ exc[p] = "none" /\ products[p] = <<>>


\* the fetch of a feed whose products are null has returned
C21_Witness ==
    \E p \in Procs : feed[p] = Response("ok", JNull) /\ pc[p] = "empty"

\* the JSON values that are numbers, or strings that spell one
Numeric(v) == v.t \in {"int", "float", "numstr", "decstr"}

\* the entry has no variants, no first-variant price, or one that is not numeric
ZeroPriced(e) ==
    \/ e.variants.t # "items"
    \/ Len(e.variants.items) = 0
    \/ ~Numeric(e.variants.items[1].price)

\* C22: an entry without variants, with an empty variants array, with a first
\* variant without price or with a price that is not numeric is normalized to
\* the price 0.0 and the fetch does not raise; any other entry gets the
\* numeric value of its first variant, whatever the later variants are.
C22_PriceNormalization ==
    \A p \in Procs :
        (feed[p].status = "ok" /\ Truthy(feed[p].products)) =>
            /\ exc[p] \notin {"TypeError", "ValueError", "AttributeError"}
            /\ Len(products[p]) = Len(feed[p].products.items) =>
                  \A i \in 1..Len(products[p]) :
                      LET e == feed[p].products.items[i] IN
                      products[p][i].price =
                          IF ZeroPriced(e) THEN 0
                          ELSE PyFloat(e.variants.items[1].price).cents

\* the sum of the prices of the records of prods at the positions S
RECURSIVE PriceSum(_, _)
PriceSum(prods, S) ==
    IF S = {} THEN 0
    ELSE LET i == CHOOSE j \in S : TRUE IN
         prods[i].price + PriceSum(prods, S \ {i})

\* C23: the mean, minimum and maximum of the prompt are those of exactly the
\* records with price > 0, and are 0 when there is none; every record, also
\* one with price <= 0, is a line of the listing and counts as an item.
C23_PromptStats ==
    \A p \in Procs :
        pc[p] = "request" =>
            LET prods  == products[p]
                prompt == build_analysis_prompt(prods)
                Pos    == {i \in 1..Len(prods) : prods[i].price > 0}
            IN  /\ prompt.items = Len(prods)
                /\ Len(prompt.products_text) = Len(prods)
                /\ \A i \in 1..Len(prods) :
                      /\ prompt.products_text[i].product_name = prods[i].product_name
                      /\ prompt.products_text[i].price = prods[i].price
                /\ IF Pos = {}
                   THEN /\ prompt.avg_price.num = 0
                        /\ prompt.min_price = 0 /\ prompt.max_price = 0
                   ELSE /\ prompt.avg_price.num = PriceSum(prods, Pos)
                        /\ prompt.avg_price.den = Cardinality(Pos)
                        /\ \E i \in Pos : prompt.min_price = prods[i].price
                        /\ \E i \in Pos : prompt.max_price = prods[i].price
                        /\ \A i \in Pos : /\ prompt.min_price <= prods[i].price
                                          /\ prompt.max_price >= prods[i].price

\* the prompt is built for a batch with a negative, a zero and positive prices
C23_Witness ==
    \E p \in Procs :
        /\ pc[p] = "request"
        /\ \E i, j \in 1..Len(products[p]) :
              products[p][i].price < 0 /\ products[p][j].price > 0

\* the prompt is built for a batch without any positive price
C23_WitnessNone ==
    \E p \in Procs :
        /\ pc[p] = "request"
        /\ \A i \in 1..Len(products[p]) : products[p][i].price = 0

C24_Once ==
    /\ \A t \in Targets :
          /\ pass["worker"][t].fetch <= 1
          /\ pass["worker"][t].obs <= 1
          /\ pass["worker"][t].assess <= 1
    /\ pc["worker"] \in {"thesis", "request", "done", "except_thesis"} =>
          /\ products["worker"] = scrape_shopify(feed["worker"]).products
          /\ pass["worker"][comp["worker"]].obs = 1
          /\ BatchPersisted("worker")

C24_Writes ==
    LET obs    == price_history' (-) price_history
        assess == market_analysis' (-) market_analysis
    IN  /\ obs # EmptyBag =>
              /\ pc["worker"] = "save" /\ pass["worker"][comp["worker"]].obs = 0
              /\ obs = Added(price_rows(comp["worker"], products["worker"], clock))
              /\ assess = EmptyBag
        /\ assess # EmptyBag =>
              /\ pc["worker"] = "request" /\ pass["worker"][comp["worker"]].assess = 0
              /\ BagCardinality(assess) = 1
              /\ obs = EmptyBag
        /\ (pc["worker"] \in {"save", "thesis", "request"}
            /\ pc'["worker"] \in {"save", "thesis", "request", "done", "except_thesis"})
               => products'["worker"] = products["worker"]

\* C24: in one scheduled cycle each competitor is fetched at most once and gets
\* at most one observation batch and at most one assessment row; the list the
\* analysis works on is the list that was fetched and persisted in the same
\* pass, also when the reasoning call is retried or fails.
C24_OneWritePerTarget == []C24_Once /\ [][C24_Writes]_vars

\* the reasoning call succeeded at its third request: one batch, one assessment
C24_Witness ==
    /\ pc["worker"] = "done" /\ attempts["worker"] = 3
    /\ pass["worker"][comp["worker"]] =
           [fetch |-> 1, obs |-> 1, assess |-> 1, status |-> "none"]

====
